---- MODULE Spec2Model ----
(***************************************************************************)
(* Model of the Move parser test harness (comprehensive_move_test.py):     *)
(* the tree inspections analyze_node, find_errors and count_node_types,    *)
(* the per-file probe test_move_file and the batch driver main.            *)
(*                                                                         *)
(* Text is modelled at byte and character level.  Bytes are the tokens     *)
(*   "a"   an ASCII letter            "LF"  the newline byte 0x0A          *)
(*   "C3"  the lead byte of a two-byte UTF-8 sequence                      *)
(*   "A9"  a UTF-8 continuation byte                                       *)
(* and characters are "a", "LF", "e'" (U+00E9, encoded C3 A9), plus the    *)
(* backslash, "n" and "." that the display transformations introduce.      *)
(*                                                                         *)
(* A syntax tree is a record of parallel sequences indexed by node id:     *)
(* parent (0 for the root, node 1), type, text and start_point.  The       *)
(* children of a node are the nodes naming it as parent, in ascending id;  *)
(* ids are NOT assigned in traversal order, so traversal order is computed.*)
(***************************************************************************)
EXTENDS Integers, Sequences, FiniteSets, TLC

VARIABLES
    pc,            \* main's position
    env_ok,        \* environment: the tree_sitter imports and Parser() succeed
    dir_exists,    \* environment: move_test_files exists
    listing,       \* environment: what glob returns, a sequence of [name, kind]
    parsers,       \* number of Parser objects constructed by main
    move_files,    \* main's move_files: paths as returned by glob
    idx,           \* position of the for loop in sorted(move_files)
    test_results,  \* main's test_results dict: filename -> success
    probe_log,     \* history: the paths handed to test_move_file, in call order
    parse_calls,   \* history: filename -> number of parser.parse calls
    result_lines,  \* history: the per-file result lines printed by the probes
    summary,       \* the summary block printed by main
    details,       \* the "Detailed results" lines printed by main
    file,          \* probe specification: the file handed to test_move_file
    out,           \* probe specification: what test_move_file did with it
    sample,        \* preview specification: the text being previewed
    shown          \* preview specification: the preview printed for it

vars == <<pc, env_ok, dir_exists, listing, parsers, move_files, idx, test_results,
          probe_log, parse_calls, result_lines, summary, details,
          file, out, sample, shown>>

(***************************************************************************)
(* Bounds of the model.                                                    *)
(***************************************************************************)
MaxNodes == 4       \* nodes in a drawn syntax tree
MaxFiles == 3       \* files in a directory drawn with every listing order and kind
MaxSuite == 7       \* files in a directory drawn with parsable files only
MaxTextLen == 52    \* length of a drawn preview text

(***************************************************************************)
(* Program constants.                                                      *)
(***************************************************************************)
NodeTextCap == 50       \* analyze_node: node.text.decode('utf-8')[:50]
LineCap == 45           \* test_move_file: line[:45]
ErrorTextCap == 30      \* test_move_file: error_node.text.decode('utf-8')[:30]
PreviewLineCap == 10    \* test_move_file: min(10, len(lines))
MaxShownErrors == 3     \* test_move_file: error_nodes[:3]
RenderDepth == 2        \* test_move_file: analyze_node(tree.root_node, max_depth=2)

Ellipsis == <<".", ".", ".">>

Min(a, b) == IF a <= b THEN a ELSE b

\* s[:k] of Python, for k >= 0.
Take(s, k) == SubSeq(s, 1, Min(k, Len(s)))

(***************************************************************************)
(* Text.                                                                   *)
(***************************************************************************)
\* bytes.decode('utf-8'), strict: the characters, or a UnicodeDecodeError.
RECURSIVE decode(_)
decode(b) ==
    IF b = <<>> THEN [ok |-> TRUE, chars |-> <<>>]
    ELSE IF Head(b) \in {"a", "LF"}
         THEN LET r == decode(Tail(b))
              IN  [ok |-> r.ok, chars |-> IF r.ok THEN <<Head(b)>> \o r.chars ELSE <<>>]
    ELSE IF Head(b) = "C3" /\ Len(b) >= 2 /\ b[2] = "A9"
         THEN LET r == decode(SubSeq(b, 3, Len(b)))
              IN  [ok |-> r.ok, chars |-> IF r.ok THEN <<"e'">> \o r.chars ELSE <<>>]
    ELSE [ok |-> FALSE, chars |-> <<>>]

\* str.replace('\n', '\\n'): each newline becomes a backslash and an n.
RECURSIVE replace_newlines(_)
replace_newlines(s) ==
    IF s = <<>> THEN <<>>
    ELSE (IF Head(s) = "LF" THEN <<"\\", "n">> ELSE <<Head(s)>>) \o replace_newlines(Tail(s))

\* `hasattr(node, 'text') and node.text`, `if error_node.text`: present and non-empty.
text_truthy(t) == t.present /\ t.bytes # <<>>

\* analyze_node's text_preview, from the decoded characters of node.text.
text_preview(chars) ==
    LET p == replace_newlines(Take(chars, NodeTextCap))
    IN  IF Len(p) = NodeTextCap THEN p \o Ellipsis ELSE p

\* test_move_file's line_preview of one source line.
line_preview(line) ==
    IF Len(line) > LineCap THEN Take(line, LineCap) \o Ellipsis ELSE Take(line, LineCap)

\* test_move_file's error_text, from the decoded characters of error_node.text.
error_text(chars) == Take(chars, ErrorTextCap)

(***************************************************************************)
(* Syntax trees (the parser's Node objects).                               *)
(***************************************************************************)
NodeCount(t) == Len(t.parent)

Nodes(t) == 1..NodeCount(t)

\* A set of node ids as the ascending sequence of its elements.
RECURSIVE Ascending(_)
Ascending(S) ==
    IF S = {} THEN <<>>
    ELSE LET m == CHOOSE x \in S : \A y \in S : x <= y
         IN  <<m>> \o Ascending(S \ {m})

\* node.children: the ordered children of node n.
Children(t, n) == Ascending({j \in Nodes(t) : t.parent[j] = n})

\* node.child_count
child_count(t, n) == Len(Children(t, n))

\* tree.root_node.has_error, by the parser's contract: true iff some node of
\* the tree, the root included, is an error-marker node.
has_error(t) == \E i \in Nodes(t) : t.type[i] = "ERROR"

(***************************************************************************)
(* analyze_node(node, depth, max_depth): one line per rendered node, in    *)
(* print order.  ok is FALSE when node.text.decode raised; lines then      *)
(* holds what had been printed before the exception left the walk.         *)
(***************************************************************************)
RECURSIVE analyze_node(_, _, _, _)
RECURSIVE analyze_children(_, _, _, _)
analyze_node(t, n, depth, max_depth) ==
    LET d == decode(t.text[n].bytes)
        withText == text_truthy(t.text[n])
        line == [node |-> n, depth |-> depth, type |-> t.type[n],
                 has_preview |-> withText,
                 preview |-> IF withText /\ d.ok THEN text_preview(d.chars) ELSE <<>>]
    IN  IF withText /\ ~d.ok THEN [ok |-> FALSE, lines |-> <<>>]
        ELSE IF depth < max_depth /\ child_count(t, n) > 0
             THEN LET r == analyze_children(t, Children(t, n), depth + 1, max_depth)
                  IN  [ok |-> r.ok, lines |-> <<line>> \o r.lines]
             ELSE [ok |-> TRUE, lines |-> <<line>>]

\* the `for child in node.children` loop of analyze_node
analyze_children(t, kids, depth, max_depth) ==
    IF kids = <<>> THEN [ok |-> TRUE, lines |-> <<>>]
    ELSE LET h == analyze_node(t, Head(kids), depth, max_depth)
         IN  IF ~h.ok THEN h
             ELSE LET r == analyze_children(t, Tail(kids), depth, max_depth)
                  IN  [ok |-> r.ok, lines |-> h.lines \o r.lines]

(***************************************************************************)
(* find_errors(node): the nodes typed 'ERROR' in the subtree of n.         *)
(***************************************************************************)
RECURSIVE find_errors(_, _)
RECURSIVE find_errors_children(_, _)
\* find_errors that looks at the node and its direct children only.
find_errors_shallow(t, n) ==
    LET own == IF t.type[n] = "ERROR" THEN <<n>> ELSE <<>>
        kids == Children(t, n)
    IN  own \o SelectSeq(kids, LAMBDA k : t.type[k] = "ERROR")

find_errors(t, n) ==
    (IF t.type[n] = "ERROR" THEN <<n>> ELSE <<>>)
        \o find_errors_children(t, Children(t, n))

\* the `for child in node.children: errors.extend(find_errors(child))` loop
find_errors_children(t, kids) ==
    IF kids = <<>> THEN <<>>
    ELSE find_errors(t, Head(kids)) \o find_errors_children(t, Tail(kids))

(***************************************************************************)
(* The display loop over error_nodes[:3].  Each entry is one printed       *)
(* location, with the error content when the node's text is non-empty.     *)
(* ok is FALSE when error_node.text.decode raised: the location of that    *)
(* node has been printed, its content and the later errors have not.       *)
(***************************************************************************)
RECURSIVE show_errors(_, _)
show_errors(t, errs) ==
    IF errs = <<>> THEN [ok |-> TRUE, shown |-> <<>>]
    ELSE LET n == Head(errs)
             d == decode(t.text[n].bytes)
             withText == text_truthy(t.text[n])
             entry == [node |-> n,
                       line |-> t.start_point[n].row + 1,
                       column |-> t.start_point[n].column + 1,
                       has_content |-> withText /\ d.ok,
                       content |-> IF withText /\ d.ok THEN error_text(d.chars) ELSE <<>>]
         IN  IF withText /\ ~d.ok THEN [ok |-> FALSE, shown |-> <<entry>>]
             ELSE LET r == show_errors(t, Tail(errs))
                  IN  [ok |-> r.ok, shown |-> <<entry>> \o r.shown]

(***************************************************************************)
(* count_node_types(node).  acc.type_counts is the dict; acc.visited is a  *)
(* history of the nodes in the order visit reached them.                   *)
(***************************************************************************)
EmptyDict == [x \in {} |-> 0]

\* type_counts[k] = type_counts.get(k, 0) + 1
dict_increment(d, k) ==
    IF k \in DOMAIN d THEN [d EXCEPT ![k] = @ + 1] ELSE d @@ (k :> 1)

RECURSIVE visit(_, _, _)
RECURSIVE visit_children(_, _, _)
\* visit that does not descend below the children of the node it starts at.
visit_shallow(t, n, acc) ==
    LET own == [type_counts |-> dict_increment(acc.type_counts, t.type[n]),
                visited |-> Append(acc.visited, n)]
        kids == Children(t, n)
        step[i \in 0..Len(kids)] ==
            IF i = 0 THEN own
            ELSE [type_counts |-> dict_increment(step[i - 1].type_counts, t.type[kids[i]]),
                  visited |-> Append(step[i - 1].visited, kids[i])]
    IN  step[Len(kids)]

visit(t, n, acc) ==
    visit_children(t, Children(t, n),
                   [type_counts |-> dict_increment(acc.type_counts, t.type[n]),
                    visited |-> Append(acc.visited, n)])

\* the `for child in n.children: visit(child)` loop
visit_children(t, kids, acc) ==
    IF kids = <<>> THEN acc
    ELSE visit_children(t, Tail(kids), visit(t, Head(kids), acc))

count_node_types(t, n) == visit(t, n, [type_counts |-> EmptyDict, visited |-> <<>>])

(***************************************************************************)
(* test_move_file(file_path, parser).                                      *)
(* A file is [read_ok, lines, parse_ok, tree]: whether open/read succeeds, *)
(* the lines of its text, whether parser.parse returns, and the tree it    *)
(* returns.                                                                *)
(***************************************************************************)
NoOut ==
    [raised |-> FALSE, fault |-> "none", escaped |-> FALSE, verdict |-> FALSE,
     result_line |-> "none", parse_calls |-> 0,
     preview |-> <<>>, omitted |-> 0,
     parsed |-> FALSE, has_error |-> FALSE,
     error_nodes |-> <<>>, error_count |-> 0, shown_errors |-> <<>>,
     root_type |-> "none", child_count |-> 0,
     ast |-> <<>>, ast_done |-> FALSE,
     census_done |-> FALSE, type_counts |-> EmptyDict, visited |-> <<>>]

\* The code preview: the first 10 lines, each through line_preview, and the
\* number of lines left out.
code_preview(lines) ==
    LET preview_lines == Min(PreviewLineCap, Len(lines))
    IN  [shown |-> [i \in 1..preview_lines |-> line_preview(lines[i])],
         omitted |-> IF Len(lines) > preview_lines THEN Len(lines) - preview_lines ELSE 0]

\* The failure branch: find_errors, the count line, the first 3 locations.
failure_branch(t, base) ==
    LET error_nodes == find_errors(t, 1)
        sh == show_errors(t, Take(error_nodes, MaxShownErrors))
    IN  [base EXCEPT !.error_nodes = error_nodes,
                     !.error_count = Len(error_nodes),
                     !.shown_errors = sh.shown,
                     !.raised = ~sh.ok,
                     !.fault = IF sh.ok THEN "none" ELSE "inspect"]

\* The success branch: root type, child count, analyze_node to depth 2,
\* then the census.
success_branch(t, base) ==
    LET a == analyze_node(t, 1, 0, RenderDepth)
        c == count_node_types(t, 1)
        seen == [base EXCEPT !.root_type = t.type[1],
                             !.child_count = child_count(t, 1),
                             !.ast = a.lines]
    IN  IF ~a.ok THEN [seen EXCEPT !.raised = TRUE, !.fault = "inspect"]
        ELSE [seen EXCEPT !.ast_done = TRUE, !.census_done = TRUE,
                          !.type_counts = c.type_counts, !.visited = c.visited]

\* The body of the try block, up to the return or the raise.
try_body(f) ==
    IF ~f.read_ok THEN [NoOut EXCEPT !.raised = TRUE, !.fault = "read"]
    ELSE LET cp == code_preview(f.lines)
             called == [NoOut EXCEPT !.preview = cp.shown, !.omitted = cp.omitted,
                                     !.parse_calls = 1]
         IN  IF ~f.parse_ok THEN [called EXCEPT !.raised = TRUE, !.fault = "parse"]
             ELSE LET t == f.tree
                      base == [called EXCEPT !.parsed = TRUE, !.has_error = has_error(t)]
                      r == IF has_error(t) THEN failure_branch(t, base)
                           ELSE success_branch(t, base)
                  IN  IF r.raised THEN r
                      ELSE [r EXCEPT !.verdict = ~has_error(t),
                                     !.result_line = IF ~has_error(t) THEN "pass" ELSE "fail"]

\* test_move_file without its `except Exception`: the exception leaves the probe.
test_move_file_uncaught(f) ==
    LET r == try_body(f)
    IN  IF r.raised THEN [r EXCEPT !.escaped = TRUE] ELSE r

test_move_file(f) ==
    LET r == try_body(f)
    IN  IF r.raised THEN [r EXCEPT !.verdict = FALSE, !.result_line = "exception"] ELSE r

(***************************************************************************)
(* The inputs the specifications draw from.                                *)
(***************************************************************************)
TextAbsent == [present |-> FALSE, bytes |-> <<>>]
TextEmpty == [present |-> TRUE, bytes |-> <<>>]
TextOk == [present |-> TRUE, bytes |-> <<"a", "C3", "A9", "LF">>]
\* a continuation byte with no lead byte: not UTF-8
TextBad == [present |-> TRUE, bytes |-> <<"a", "A9">>]

Point(r, c) == [row |-> r, column |-> c]

NodeKinds ==
    { [type |-> "source_file", text |-> TextOk,     start_point |-> Point(0, 0)],
      [type |-> "module",      text |-> TextEmpty,  start_point |-> Point(0, 1)],
      [type |-> "identifier",  text |-> TextAbsent, start_point |-> Point(1, 0)],
      [type |-> "identifier",  text |-> TextBad,    start_point |-> Point(1, 3)],
      [type |-> "ERROR",       text |-> TextOk,     start_point |-> Point(1, 2)],
      [type |-> "ERROR",       text |-> TextBad,    start_point |-> Point(2, 0)] }

MkTree(p, k) ==
    [parent |-> p,
     type |-> [i \in 1..Len(p) |-> k[i].type],
     text |-> [i \in 1..Len(p) |-> k[i].text],
     start_point |-> [i \in 1..Len(p) |-> k[i].start_point]]

\* Every parent assignment of n nodes in which a parent has a smaller id.
ParentSeqs(n) ==
    {p \in [1..n -> 0..(n - 1)] : p[1] = 0 /\ \A i \in 2..n : p[i] \in 1..(i - 1)}

SourceLines == << <<"a", "a">>, <<"a", "e'">> >>

\* The kinds of file a directory of the batch specification holds.
CleanTree ==
    MkTree(<<0, 1, 2>>,
           << [type |-> "source_file", text |-> TextOk, start_point |-> Point(0, 0)],
              [type |-> "module", text |-> TextOk, start_point |-> Point(0, 0)],
              [type |-> "identifier", text |-> TextOk, start_point |-> Point(0, 1)] >>)

ErrorTree ==
    MkTree(<<0, 1, 1>>,
           << [type |-> "source_file", text |-> TextOk, start_point |-> Point(0, 0)],
              [type |-> "module", text |-> TextOk, start_point |-> Point(0, 0)],
              [type |-> "ERROR", text |-> TextOk, start_point |-> Point(1, 2)] >>)

BadTextTree ==
    MkTree(<<0, 1, 2>>,
           << [type |-> "source_file", text |-> TextOk, start_point |-> Point(0, 0)],
              [type |-> "module", text |-> TextOk, start_point |-> Point(0, 0)],
              [type |-> "identifier", text |-> TextBad, start_point |-> Point(0, 1)] >>)

Kinds == {"unreadable", "parser_fault", "clean", "syntax_error", "bad_text"}

ParsableKinds == {"clean", "syntax_error"}

FileOfKind(kind) ==
    [read_ok |-> kind # "unreadable",
     lines |-> SourceLines,
     parse_ok |-> kind # "parser_fault",
     tree |-> IF kind = "syntax_error" THEN ErrorTree
              ELSE IF kind = "bad_text" THEN BadTextTree
              ELSE CleanTree]

\* The orders in which glob can list n files.
Orders(n) == {o \in [1..n -> 1..n] : \A i, j \in 1..n : o[i] = o[j] => i = j}

\* Directories of at most MaxFiles files, of every kind, listed in every order.
SmallListings ==
    UNION { {[i \in 1..n |-> [name |-> o[i], kind |-> k[o[i]]]] :
                o \in Orders(n), k \in [1..n -> Kinds]} :
            n \in 0..MaxFiles }

\* Directories of at most MaxSuite parsable files, listed ascending or descending.
SuiteListings ==
    UNION { {[i \in 1..n |-> [name |-> IF asc THEN i ELSE n + 1 - i,
                              kind |-> k[IF asc THEN i ELSE n + 1 - i]]] :
                asc \in BOOLEAN, k \in [1..n -> ParsableKinds]} :
            n \in 1..MaxSuite }

Listings == SmallListings \cup SuiteListings

(***************************************************************************)
(* main.  File names are natural numbers whose order is the lexicographic  *)
(* order of the names; a path is the directory and the name.               *)
(***************************************************************************)
TestDir == "move_test_files"

\* os.path.join(test_dir, name)
Path(name) == [dir |-> TestDir, name |-> name]

\* os.path.basename(file_path)
basename(path) == path.name

\* The order of sorted() on paths: every path lies in test_dir.
PathLess(p, q) == p.dir = q.dir /\ p.name < q.name

\* sorted(paths): selection of the least remaining path.
RECURSIVE SortedSet(_)
SortedSet(S) ==
    IF S = {} THEN <<>>
    ELSE LET m == CHOOSE x \in S : \A y \in S \ {x} : PathLess(x, y)
         IN  <<m>> \o SortedSet(S \ {m})

\* main's loop over the glob result as it stands, without sorted().
unsorted(paths) == paths

sorted(paths) == SortedSet({paths[i] : i \in 1..Len(paths)})

\* glob.glob(os.path.join(test_dir, "*.move"))
glob == [i \in 1..Len(listing) |-> Path(listing[i].name)]

\* The file behind a path of the listing.
FileAt(path) ==
    LET e == CHOOSE e \in {listing[i] : i \in 1..Len(listing)} : e.name = path.name
    IN  FileOfKind(e.kind)

\* f"{(passed_files/total_files)*100:.1f}", in tenths of a percent: the
\* nearest tenth, a tie going to the even digit.
success_rate_truncated(passed, total) == (passed * 1000) \div total

success_rate(passed, total) ==
    LET q == (passed * 1000) \div total
        r == (passed * 1000) % total
    IN  IF 2 * r > total THEN q + 1
        ELSE IF 2 * r < total THEN q
        ELSE IF q % 2 = 0 THEN q ELSE q + 1

NoSummary == [started |-> FALSE, complete |-> FALSE,
              total |-> 0, passed |-> 0, failed |-> 0, rate |-> 0]

\* d[k] = v on a dict
dict_set(d, k, v) ==
    IF k \in DOMAIN d THEN [d EXCEPT ![k] = v] ELSE d @@ (k :> v)

NoFile == FileOfKind("unreadable")

NoShown == [what |-> "none", cap |-> 0, source |-> <<>>, text |-> <<>>]

\* Lines 127-138: the imports and the construction of the one parser.
main_create_parser ==
    /\ pc = "start"
    /\ IF env_ok
       THEN pc' = "parser_ready" /\ parsers' = parsers + 1
       ELSE pc' = "import_error" /\ parsers' = parsers
    /\ UNCHANGED <<env_ok, dir_exists, listing, move_files, idx, test_results,
                   probe_log, parse_calls, result_lines, summary, details,
                   file, out, sample, shown>>

\* main_find_files without the `if not move_files` return.
main_find_files_unguarded ==
    /\ pc = "parser_ready"
    /\ IF ~dir_exists
       THEN pc' = "no_dir" /\ move_files' = move_files
       ELSE pc' = "testing" /\ move_files' = glob
    /\ idx' = 1
    /\ test_results' = EmptyDict
    /\ UNCHANGED <<env_ok, dir_exists, listing, parsers,
                   probe_log, parse_calls, result_lines, summary, details,
                   file, out, sample, shown>>

\* Lines 140-158: the directory check, glob, the empty check, the listing,
\* and the start of the loop over sorted(move_files).
main_find_files ==
    /\ pc = "parser_ready"
    /\ IF ~dir_exists
       THEN pc' = "no_dir" /\ move_files' = move_files
       ELSE /\ move_files' = glob
            /\ pc' = IF glob = <<>> THEN "no_files" ELSE "testing"
    /\ idx' = 1
    /\ test_results' = EmptyDict
    /\ UNCHANGED <<env_ok, dir_exists, listing, parsers,
                   probe_log, parse_calls, result_lines, summary, details,
                   file, out, sample, shown>>

\* Lines 159-162: one turn of the loop.  An exception leaving test_move_file
\* is caught by main's `except Exception` (lines 193-194), which ends main.
main_test_file ==
    /\ pc = "testing"
    /\ idx <= Len(sorted(move_files))
    /\ LET file_path == sorted(move_files)[idx]
           filename == basename(file_path)
           r == test_move_file(FileAt(file_path))
       IN  /\ probe_log' = Append(probe_log, file_path)
           /\ parse_calls' =
                  dict_set(parse_calls, filename,
                           (IF filename \in DOMAIN parse_calls
                            THEN parse_calls[filename] ELSE 0) + r.parse_calls)
           /\ result_lines' =
                  Append(result_lines, [filename |-> filename, line |-> r.result_line])
           /\ IF r.escaped
              THEN pc' = "other_error" /\ UNCHANGED <<idx, test_results>>
              ELSE /\ test_results' = dict_set(test_results, filename, r.verdict)
                   /\ idx' = idx + 1
                   /\ pc' = pc
    /\ UNCHANGED <<env_ok, dir_exists, listing, parsers, move_files,
                   summary, details, file, out, sample, shown>>

\* Lines 164-187: the summary and the detailed results.  With no result the
\* success rate divides by zero after the three counts have been printed,
\* and main's `except Exception` ends main.
main_summary ==
    /\ pc = "testing"
    /\ idx > Len(sorted(move_files))
    /\ LET total_files == Cardinality(DOMAIN test_results)
           passed_files == Cardinality({k \in DOMAIN test_results : test_results[k]})
           failed_files == total_files - passed_files
           names == Ascending(DOMAIN test_results)
       IN  IF total_files = 0
           THEN /\ summary' = [started |-> TRUE, complete |-> FALSE,
                               total |-> total_files, passed |-> passed_files,
                               failed |-> failed_files, rate |-> 0]
                /\ details' = details
                /\ pc' = "other_error"
           ELSE /\ summary' = [started |-> TRUE, complete |-> TRUE,
                               total |-> total_files, passed |-> passed_files,
                               failed |-> failed_files,
                               rate |-> success_rate(passed_files, total_files)]
                /\ details' = [i \in 1..Len(names) |->
                                  [filename |-> names[i], success |-> test_results[names[i]]]]
                /\ pc' = "done"
    /\ UNCHANGED <<env_ok, dir_exists, listing, parsers, move_files, idx, test_results,
                   probe_log, parse_calls, result_lines, file, out, sample, shown>>

Init ==
    /\ pc = "start"
    /\ env_ok \in BOOLEAN
    /\ dir_exists \in BOOLEAN
    /\ listing \in (IF dir_exists THEN Listings ELSE {<<>>})
    /\ parsers = 0
    /\ move_files = <<>>
    /\ idx = 1
    /\ test_results = EmptyDict
    /\ probe_log = <<>>
    /\ parse_calls = EmptyDict
    /\ result_lines = <<>>
    /\ summary = NoSummary
    /\ details = <<>>
    /\ file = NoFile
    /\ out = NoOut
    /\ sample = <<>>
    /\ shown = NoShown

Next ==
    \/ main_create_parser
    \/ main_find_files
    \/ main_test_file
    \/ main_summary

Spec == Init /\ [][Next]_vars

(***************************************************************************)
(* The probe on its own: test_move_file applied to one readable file whose *)
(* parse returns any tree of at most MaxNodes nodes.                       *)
(***************************************************************************)
\* A readable file whose parse returns tree t.
ProbeFile(t) == [read_ok |-> TRUE, lines |-> SourceLines, parse_ok |-> TRUE, tree |-> t]

InitProbe ==
    /\ pc = "file_ready"
    /\ env_ok = TRUE
    /\ dir_exists = TRUE
    /\ listing = <<>>
    /\ parsers = 1
    /\ move_files = <<>>
    /\ idx = 1
    /\ test_results = EmptyDict
    /\ probe_log = <<>>
    /\ parse_calls = EmptyDict
    /\ result_lines = <<>>
    /\ summary = NoSummary
    /\ details = <<>>
    /\ \E n \in 1..MaxNodes :
           \E p \in ParentSeqs(n), k \in [1..n -> NodeKinds] :
               file = ProbeFile(MkTree(p, k))
    /\ out = NoOut
    /\ sample = <<>>
    /\ shown = NoShown

probe_file ==
    /\ pc = "file_ready"
    /\ out' = test_move_file(file)
    /\ pc' = "file_probed"
    /\ UNCHANGED <<env_ok, dir_exists, listing, parsers, move_files, idx, test_results,
                   probe_log, parse_calls, result_lines, summary, details,
                   file, sample, shown>>

NextProbe == probe_file

SpecProbe == InitProbe /\ [][NextProbe]_vars

(***************************************************************************)
(* The three previews on their own, applied to texts around their caps.    *)
(***************************************************************************)
\* n letters with a newline at position k (none when k = 0)
Letters(n, k) == [i \in 1..n |-> IF i = k THEN "LF" ELSE "a"]

Samples ==
    {Letters(n, k) : n \in 0..MaxTextLen, k \in 0..MaxTextLen}
        \cup {<<"C3", "A9">> \o Letters(n - 1, 0) : n \in 1..MaxTextLen}

OneNodeTree(type, bytes) ==
    MkTree(<<0>>, <<[type |-> type, text |-> [present |-> TRUE, bytes |-> bytes],
                     start_point |-> Point(0, 0)]>>)

InitPreview ==
    /\ pc = "text_ready"
    /\ env_ok = TRUE
    /\ dir_exists = TRUE
    /\ listing = <<>>
    /\ parsers = 1
    /\ move_files = <<>>
    /\ idx = 1
    /\ test_results = EmptyDict
    /\ probe_log = <<>>
    /\ parse_calls = EmptyDict
    /\ result_lines = <<>>
    /\ summary = NoSummary
    /\ details = <<>>
    /\ file = NoFile
    /\ out = NoOut
    /\ sample \in Samples
    /\ shown = NoShown

\* analyze_node on a node whose text is the sample
preview_node_text ==
    /\ pc = "text_ready"
    /\ sample # <<>>
    /\ LET a == analyze_node(OneNodeTree("identifier", sample), 1, 0, RenderDepth)
       IN  shown' = [what |-> "node_text", cap |-> NodeTextCap,
                     source |-> decode(sample).chars, text |-> a.lines[1].preview]
    /\ pc' = "shown"
    /\ UNCHANGED <<env_ok, dir_exists, listing, parsers, move_files, idx, test_results,
                   probe_log, parse_calls, result_lines, summary, details,
                   file, out, sample>>

\* the code preview of a file whose only line is the sample
preview_line ==
    /\ pc = "text_ready"
    /\ \A i \in 1..Len(sample) : sample[i] # "LF"
    /\ LET line == decode(sample).chars
       IN  shown' = [what |-> "line", cap |-> LineCap,
                     source |-> line, text |-> code_preview(<<line>>).shown[1]]
    /\ pc' = "shown"
    /\ UNCHANGED <<env_ok, dir_exists, listing, parsers, move_files, idx, test_results,
                   probe_log, parse_calls, result_lines, summary, details,
                   file, out, sample>>

\* the error display of an ERROR node whose text is the sample
preview_error_text ==
    /\ pc = "text_ready"
    /\ sample # <<>>
    /\ LET sh == show_errors(OneNodeTree("ERROR", sample), <<1>>)
       IN  shown' = [what |-> "error_text", cap |-> ErrorTextCap,
                     source |-> decode(sample).chars, text |-> sh.shown[1].content]
    /\ pc' = "shown"
    /\ UNCHANGED <<env_ok, dir_exists, listing, parsers, move_files, idx, test_results,
                   probe_log, parse_calls, result_lines, summary, details,
                   file, out, sample>>

NextPreview ==
    \/ preview_node_text
    \/ preview_line
    \/ preview_error_text

SpecPreview == InitPreview /\ [][NextPreview]_vars

(***************************************************************************)
(* Vocabulary of the properties, stated on the tree itself and not by a    *)
(* traversal.                                                              *)
(***************************************************************************)
\* The proper ancestors of node n.
RECURSIVE Ancestors(_, _)
Ancestors(t, n) ==
    IF t.parent[n] = 0 THEN {} ELSE {t.parent[n]} \cup Ancestors(t, t.parent[n])

Depth(t, n) == Cardinality(Ancestors(t, n))

\* Node i comes before node j in pre-order: i is an ancestor of j, or the
\* branches holding them part at two siblings of which i's is the left one.
Before(t, i, j) ==
    /\ i # j
    /\ \/ i \in Ancestors(t, j)
       \/ /\ j \notin Ancestors(t, i)
          /\ \E a \in Ancestors(t, i) \cup {i}, b \in Ancestors(t, j) \cup {j} :
                 a < b /\ t.parent[a] = t.parent[b]

\* s lists the nodes of S, each once, in pre-order.
IsPreOrderOf(t, s, S) ==
    /\ Len(s) = Cardinality(S)
    /\ {s[i] : i \in 1..Len(s)} = S
    /\ \A i, j \in 1..Len(s) : i < j => Before(t, s[i], s[j])

ErrorNodes(t) == {n \in Nodes(t) : t.type[n] = "ERROR"}

RECURSIVE SumOver(_, _)
SumOver(d, K) ==
    IF K = {} THEN 0
    ELSE LET k == CHOOSE k \in K : TRUE
         IN  d[k] + SumOver(d, K \ {k})

\* The file of the listing named name raises somewhere in the probe.
Faults(name) == try_body(FileAt(Path(name))).raised

Names == {listing[i].name : i \in 1..Len(listing)}

Discovered == dir_exists /\ listing # <<>>

\* main has returned.
Returned == pc \notin {"start", "parser_ready", "testing"}

(***************************************************************************)
(* C1.  For every file test_move_file parsed, the verdict is pass exactly  *)
(* when the tree's has_error is false and fail exactly when it is true,    *)
(* whatever the texts of the nodes (absent, empty, not UTF-8).             *)
(***************************************************************************)
C1_VerdictIsNotHasError ==
    (pc = "file_probed" /\ out.parsed) => (out.verdict = ~out.has_error)

(***************************************************************************)
(* C2.  A fault while reading, parsing or inspecting one file never leaves *)
(* test_move_file: that file gets a fail verdict, main probes every other  *)
(* discovered file, and ends with a summary whose total is the number of   *)
(* discovered files.                                                       *)
(***************************************************************************)
C2_FaultIsolated ==
    /\ pc # "other_error"
    /\ \A i \in 1..Len(probe_log) :
           Faults(probe_log[i].name) =>
               /\ result_lines[i].line = "exception"
               /\ probe_log[i].name \in DOMAIN test_results
               /\ ~test_results[probe_log[i].name]
    /\ pc = "testing" => Len(probe_log) = idx - 1
    /\ (Returned /\ env_ok /\ Discovered) =>
           /\ pc = "done"
           /\ {probe_log[i].name : i \in 1..Len(probe_log)} = Names
           /\ summary.complete
           /\ summary.total = Len(listing)

\* A run that ended with its summary although the first two files probed
\* raised, at three different places over the run.
C2_Witness ==
    /\ pc = "done"
    /\ summary.complete
    /\ Len(result_lines) >= 3
    /\ result_lines[1].line = "exception"
    /\ result_lines[2].line = "exception"
    /\ {listing[i].kind : i \in 1..Len(listing)} = {"unreadable", "parser_fault", "bad_text"}

(***************************************************************************)
(* C3.  For every parsed tree find_errors(root) is non-empty if and only   *)
(* if has_error is true; a probe in the failure branch never reports 0     *)
(* error nodes.                                                            *)
(***************************************************************************)
C3_ErrorsIffHasError ==
    (pc = "file_probed" /\ out.parsed) =>
        /\ (find_errors(file.tree, 1) # <<>>) <=> out.has_error
        /\ out.has_error => (out.error_count > 0 /\ out.error_nodes = find_errors(file.tree, 1))

\* A failure branch whose only error nodes lie below the children of a root
\* that is not itself an error node.
C3_Witness ==
    /\ pc = "file_probed"
    /\ out.has_error
    /\ out.error_count > 0
    /\ \A n \in ErrorNodes(file.tree) : Depth(file.tree, n) >= 2

(***************************************************************************)
(* C4.  For every finite tree count_node_types visits each node exactly    *)
(* once, in pre-order; the count stored for a type is the number of nodes  *)
(* of that type, and the counts add up to the number of nodes.             *)
(***************************************************************************)
C4_CensusCountsEveryNode ==
    pc = "file_probed" =>
        LET t == file.tree
            c == count_node_types(t, 1)
        IN  /\ IsPreOrderOf(t, c.visited, Nodes(t))
            /\ DOMAIN c.type_counts = {t.type[n] : n \in Nodes(t)}
            /\ \A ty \in DOMAIN c.type_counts :
                   c.type_counts[ty] = Cardinality({n \in Nodes(t) : t.type[n] = ty})
            /\ SumOver(c.type_counts, DOMAIN c.type_counts) = NodeCount(t)
            /\ out.census_done =>
                   (out.type_counts = c.type_counts /\ out.visited = c.visited)

\* A census printed for a tree with a node three levels down, a type that
\* occurs twice, and node ids that are not in traversal order.
C4_Witness ==
    /\ pc = "file_probed"
    /\ out.census_done
    /\ \E n \in Nodes(file.tree) : Depth(file.tree, n) >= 2
    /\ \E ty \in DOMAIN out.type_counts : out.type_counts[ty] >= 2
    /\ \E i \in 1..Len(out.visited) : out.visited[i] # i

(***************************************************************************)
(* C5.  Every preview (node text, cap 50; source line, cap 45; error       *)
(* excerpt, cap 30) shows a text longer than its cap as its first cap      *)
(* characters followed by "...", and a text of at most cap characters      *)
(* verbatim, with no marker.  (A node text is compared as analyze_node     *)
(* writes it, its newlines escaped.)                                       *)
(***************************************************************************)
C5_TruncationLaw ==
    pc = "shown" =>
        LET written(s) == IF shown.what = "node_text" THEN replace_newlines(s) ELSE s
        IN  IF Len(shown.source) > shown.cap
            THEN shown.text = written(Take(shown.source, shown.cap)) \o Ellipsis
            ELSE shown.text = written(shown.source)

(***************************************************************************)
(* C6.  After main has probed a non-empty set of discovered files the      *)
(* summary's total is the number of discovered files, passed the number of *)
(* pass verdicts, failed the number of fail verdicts, passed + failed =    *)
(* total, and the success rate is passed/total x 100 to one decimal place  *)
(* (here in tenths of a percent: the nearest tenth).                       *)
(***************************************************************************)
C6_SummaryCounts ==
    pc = "done" =>
        LET passes == {i \in 1..Len(result_lines) : result_lines[i].line = "pass"}
            fails == {i \in 1..Len(result_lines) : result_lines[i].line # "pass"}
            off == summary.rate * summary.total - summary.passed * 1000
        IN  /\ summary.complete
            /\ summary.total = Len(listing)
            /\ summary.passed = Cardinality(passes)
            /\ summary.failed = Cardinality(fails)
            /\ summary.passed + summary.failed = summary.total
            /\ 2 * off <= summary.total
            /\ 2 * (0 - off) <= summary.total

\* 5 files pass and 2 fail: total 7, passed 5, failed 2, 71.4 %.
C6_Witness ==
    /\ pc = "done"
    /\ Cardinality({i \in 1..Len(listing) : listing[i].kind = "clean"}) = 5
    /\ Cardinality({i \in 1..Len(listing) : listing[i].kind = "syntax_error"}) = 2
    /\ summary = [started |-> TRUE, complete |-> TRUE,
                  total |-> 7, passed |-> 5, failed |-> 2, rate |-> 714]

(***************************************************************************)
(* C7.  If the test directory does not exist or holds no matching file,    *)
(* main returns after reporting it: no file is probed, the parser is never *)
(* invoked, no summary is produced; so the success rate is never computed  *)
(* with total = 0.                                                         *)
(***************************************************************************)
C7_NoFilesNoSummary ==
    /\ ~Discovered =>
           /\ probe_log = <<>>
           /\ parse_calls = EmptyDict
           /\ ~summary.started
           /\ pc \in {"start", "parser_ready", "import_error", "no_dir", "no_files"}
           /\ (Returned /\ env_ok) =>
                  pc = (IF dir_exists THEN "no_files" ELSE "no_dir")
    /\ summary.started => summary.total > 0

\* main has returned from an existing directory without a matching file.
C7_Witness ==
    /\ pc = "no_files"
    /\ dir_exists
    /\ listing = <<>>
    /\ parsers = 1

(***************************************************************************)
(* C8, as stated.  Whatever order glob lists the files in, main probes     *)
(* them one at a time in lexicographic order of filename, each exactly     *)
(* once with exactly one parse call.                                       *)
(***************************************************************************)
C8_ExactlyOneParseEach ==
    pc = "done" =>
        /\ \A i, j \in 1..Len(probe_log) : i < j => PathLess(probe_log[i], probe_log[j])
        /\ \A name \in Names : name \in DOMAIN parse_calls /\ parse_calls[name] = 1

(***************************************************************************)
(* C8, amended.  Whatever order glob lists the files in, main probes them  *)
(* one at a time in lexicographic order of filename, each exactly once,    *)
(* on the one parser, with at most one parse call per file: exactly one    *)
(* when the file could be read, none when reading it raised.  The per-file *)
(* result lines and the detailed results follow the same order, and the    *)
(* detailed results and the summary are determined by the files alone.     *)
(***************************************************************************)
C8_OrderedSingleParse ==
    /\ parsers <= 1
    /\ Len(result_lines) = Len(probe_log)
    /\ \A i \in 1..Len(probe_log) : result_lines[i].filename = probe_log[i].name
    /\ \A i, j \in 1..Len(probe_log) : i < j => PathLess(probe_log[i], probe_log[j])
    /\ \A i \in 1..Len(probe_log) :
           /\ probe_log[i].name \in Names
           /\ probe_log[i].name \in DOMAIN parse_calls
           /\ parse_calls[probe_log[i].name] =
                  (IF FileAt(probe_log[i]).read_ok THEN 1 ELSE 0)
    /\ pc = "done" =>
           /\ {probe_log[i].name : i \in 1..Len(probe_log)} = Names
           /\ details = [i \in 1..Len(listing) |->
                            [filename |-> i,
                             success |-> test_move_file(FileAt(Path(i))).verdict]]
           /\ summary.passed =
                  Cardinality({n \in Names : test_move_file(FileAt(Path(n))).verdict})

\* A finished run over three files that glob listed out of order, one of
\* which could not be read.
C8_Witness ==
    /\ pc = "done"
    /\ Len(listing) = 3
    /\ listing[1].name > listing[2].name
    /\ listing[2].name < listing[3].name
    /\ \E i \in 1..3 : listing[i].kind = "unreadable"
    /\ \E n \in Names : parse_calls[n] = 1

(***************************************************************************)
(* C9.  In the failure branch find_errors returns all nodes typed ERROR in *)
(* pre-order, the reported count is their full number n, and the errors    *)
(* displayed are exactly the first min(3, n) of them, each with line =     *)
(* start row + 1 and column = start column + 1.                            *)
(***************************************************************************)
C9_FirstThreeErrorsShown ==
    (pc = "file_probed" /\ out.has_error) =>
        LET t == file.tree
            n == Cardinality(ErrorNodes(t))
        IN  /\ IsPreOrderOf(t, out.error_nodes, ErrorNodes(t))
            /\ out.error_count = n
            /\ Len(out.shown_errors) = Min(MaxShownErrors, n)
            /\ \A i \in 1..Len(out.shown_errors) :
                   /\ out.shown_errors[i].node = out.error_nodes[i]
                   /\ out.shown_errors[i].line = t.start_point[out.error_nodes[i]].row + 1
                   /\ out.shown_errors[i].column =
                          t.start_point[out.error_nodes[i]].column + 1

(***************************************************************************)
(* C10.  When decoding a node's text faults during analyze_node's walk the *)
(* walk is not aborted: every node within the depth bound is still         *)
(* rendered.                                                               *)
(***************************************************************************)
C10_WalkNotAborted ==
    (pc = "file_probed" /\ out.parsed /\ ~out.has_error) =>
        /\ out.ast_done
        /\ {out.ast[i].node : i \in 1..Len(out.ast)} =
               {n \in Nodes(file.tree) : Depth(file.tree, n) <= RenderDepth}

====
